---------------------------- MODULE Spec2Model ----------------------------
(* A model of the SNMP client of snmpgo (client.go): the connection life  *)
(* cycle (Open, Close), the request entry points and their retry loop     *)
(* (sendPdu), the trap senders, and the GetBulkWalk algorithm run against *)
(* a simulated agent.                                                     *)
(*                                                                        *)
(* Two specifications share the module:                                   *)
(*   Spec      one client, calls made one after another, every blocking   *)
(*             step (dial, discovery, send attempt) a step of its own;    *)
(*   SpecWalk  one GetBulkWalk call, one loop iteration per step, against *)
(*             an agent over a finite MIB.                                *)
EXTENDS Integers, Sequences, FiniteSets, TLC

VARIABLES
    \* ---- the client (type SNMP, SNMPArguments) ----
    version,          \* args.Version: 0 = V1, 1 = V2c, 3 = V3
    retries,          \* args.Retries
    authEngineBoots,  \* args.authEngineBoots
    authEngineTime,   \* args.authEngineTime
    conn,             \* s.conn: 0 is nil, otherwise the id of a socket
    engine,           \* s.engine: 0 is nil, otherwise the id of an engine
    \* ---- the environment of the client ----
    openSocks,        \* ids of the sockets dialed and not yet closed
    nextSock,         \* id of the next socket net.DialTimeout returns
    nextEngine,       \* id of the next engine newSNMPEngine returns
    \* ---- the call in progress ----
    pc,               \* "idle" | "dial" | "discover" | "send"
    op,               \* the public operation in progress
    i,                \* loop index of the retry loop in progress
    entry,            \* conn and engine at the entry of the call
    outs,             \* outcomes of the engine.SendPdu attempts of the call
    discOuts,         \* outcomes of the discovery attempts of the call
    dials,            \* dial attempts of the call
    discRuns,         \* runs of engine.Discover since s.conn was last nil
    wire,             \* the datagrams of the call: the socket and engine of each
    ret,              \* what the last call returned
    crashed,          \* a nil dereference or a slice out of range happened
    \* ---- GetBulkWalk (SpecWalk) ----
    mib,              \* the agent's MIB: a set of OIDs
    agent,            \* "correct" | "erring" | "unreachable" | "faulty"
    call,             \* the arguments GetBulkWalk was called with
    oids,             \* local oids
    reqOids,          \* local reqOids
    nonRepeaters,     \* parameter nonRepeaters (reassigned by the loop)
    maxRepetitions,   \* parameter maxRepetitions
    nonRepBinds,      \* local nonRepBinds
    resBinds,         \* local resBinds
    wpc,              \* "entry" | "loop" | "done"
    wret,             \* what GetBulkWalk returned
    lastPdu,          \* the response of the last GetBulkRequest
    requests,         \* the GetBulkRequests issued so far
    \* ---- Close from another goroutine (SpecShutdown) ----
    shut,             \* the conn and engine a Close cleared under a request
    \* ---- the bytes of V1Trap (SpecTrap) ----
    varPduV1,         \* parameter varPduV1 of V1Trap
    marbuf,           \* local marbuf: the bytes handed to conn.Write
    decoded,          \* what the receiver decodes from marbuf
    tpc               \* "idle" | "input" | "marshalled" | "decoded"

clientVars == <<version, retries, authEngineBoots, authEngineTime, conn, engine,
                openSocks, nextSock, nextEngine, pc, op, i, entry, outs,
                discOuts, dials, discRuns, wire, ret, crashed>>
walkVars == <<mib, agent, call, oids, reqOids, nonRepeaters,
              maxRepetitions, nonRepBinds, resBinds, wpc, wret, lastPdu,
              requests>>
trapVars == <<varPduV1, marbuf, decoded, tpc>>
vars == <<clientVars, walkVars, shut, trapVars>>

-----------------------------------------------------------------------------
(* Bounds of the model.                                                    *)

MaxRetries == 2      \* args.Retries ranges over 0..MaxRetries
MaxSocks == 3        \* sockets a behaviour may dial
MaxMib == 4          \* entries of the agent's MIB
MaxOids == 2         \* OIDs passed to GetBulkWalk
MaxRep == 3          \* maxRepetitions passed to GetBulkWalk
MaxBinds == 2        \* var-binds in a Response of the faulty agent
MaxSubIds == 30      \* sub-identifiers of the enterprise OID of a V1 trap

(* Program constants.                                                      *)

V1 == 0
V2c == 1
V3 == 3
MaxInt32 == 2147483647

Versions == {V1, V2c, V3}

-----------------------------------------------------------------------------
(* Go's int is 64 bits wide on the platforms the library targets. A call   *)
(* argument is the pair [hi, lo] that stands for hi * 2^31 + lo with       *)
(* 0 <= lo <= MaxInt32, so that a value above MaxInt32 can be written.     *)

Wide(hi, lo) == [hi |-> hi, lo |-> lo]

WideOfSmall(n) == IF n < 0 THEN Wide(-1, MaxInt32 + (n + 1)) ELSE Wide(0, n)

IsNegative(v) == v.hi < 0

ExceedsMaxInt32(v) == v.hi > 0 \/ (v.hi = 0 /\ v.lo > MaxInt32)

\* the argument values the entry points are called with
ArgInts == {Wide(-1, MaxInt32), Wide(0, 0), Wide(0, MaxInt32), Wide(1, 0)}


Zero == Wide(0, 0)

-----------------------------------------------------------------------------
(* Errors and attempt outcomes.                                            *)

\* what one run of net.DialTimeout can give
DialOutcomes == {"ok", "timeout", "transport"}

\* what one discovery round trip can give
DiscoverOutcomes == {"ok", "timeout", "transport", "decode", "security"}

Outcome(e, p) == [err |-> e, pdu |-> p]

FailedAttempts == {Outcome(e, "none") :
                     e \in {"timeout", "transport", "decode", "security"}}

ConfirmedOps == {"GetRequest", "GetNextRequest", "GetBulkRequest",
                 "InformRequest"}
TrapOps == {"V2Trap", "V2TrapWithBootsTime", "InformRequest"}
SendOps == ConfirmedOps \cup TrapOps

\* engine.SendPdu: a confirmed PDU waits for the Response ("ok": error-status
\* 0, "errstatus": error-status not 0); an unconfirmed one returns after the
\* write
AttemptOutcomes(o) ==
    IF o \in ConfirmedOps
    THEN FailedAttempts \cup {Outcome("nil", "ok"), Outcome("nil", "errstatus")}
    ELSE {Outcome("nil", "none"), Outcome("timeout", "none"),
          Outcome("transport", "none")}

\* retry(retries, f): f runs again after a timeout or a transient transport
\* error while fewer than `retries` retries were made; every other outcome,
\* success included, ends the loop
Transient == {"timeout", "transport"}

retry(n, idx, err) == err \in Transient /\ idx < n

-----------------------------------------------------------------------------
(* The pieces of client.go the actions are made of.                       *)

\* Open: `if s.conn != nil { return }`
OpenIsNoopAlwaysDial == FALSE
OpenIsNoop == conn # 0

\* Open: `retry(int(s.args.Retries), ...)` around net.DialTimeout
OpenRetries == retries

\* sendPdu: `retry(int(s.args.Retries), ...)` around engine.SendPdu
sendPduRetriesOneMore == retries + 1
sendPduRetries == retries

\* sendPdu: the closure returns the attempt's error to retry
sendPduClosureErrRetriesStatus(out) ==
    IF out.pdu = "errstatus" THEN "timeout" ELSE out.err
sendPduClosureErr(out) == out.err

\* sendPdu: the closure stores the attempt's PDU in the named result
sendPduResultDropped(out) == "none"
sendPduResult(out) == out.pdu

\* engine.Discover: a discovery round trip is made for V3 only
NeedsDiscovery == version = V3

\* Close: what it leaves in s.conn, s.engine and of the open sockets
CloseKeepsConn ==
    IF conn # 0
    THEN [conn |-> conn, engine |-> engine, open |-> openSocks \ {conn}]
    ELSE [conn |-> conn, engine |-> engine, open |-> openSocks]
CloseEffect ==
    IF conn # 0
    THEN [conn |-> 0, engine |-> 0, open |-> openSocks \ {conn}]
    ELSE [conn |-> conn, engine |-> engine, open |-> openSocks]

\* Open: `if err != nil { s.Close(); return }` after engine.Discover
OpenLeavesSocketOpen ==
    [conn |-> conn, engine |-> engine, open |-> openSocks]
OpenOnDiscoverError == CloseEffect

\* GetBulkRequest: the three argument checks, in the order of the code
GetBulkArgError(ver, nr, mr) ==
    \/ ver < V2c
    \/ IsNegative(nr) \/ ExceedsMaxInt32(nr)
    \/ IsNegative(mr) \/ ExceedsMaxInt32(mr)

\* v2trap: `if s.args.Version < V2c`
v2trapArgErrorNever == FALSE
v2trapArgError == version < V2c

\* V1Trap: `if s.args.Version > V1`
V1TrapArgError == version > V1

\* V2TrapWithBootsTime: the two range checks
BootsTimeArgError(eBoots, eTime) ==
    \/ IsNegative(eBoots) \/ ExceedsMaxInt32(eBoots)
    \/ IsNegative(eTime) \/ ExceedsMaxInt32(eTime)

\* the n-th datagram of a call, written by engine.SendPdu or by V1Trap: the
\* socket and the engine it goes through, the boots and time s.args holds when
\* it is built, and the outcome e of the attempt it belongs to
Datagram(n, e) ==
    [sock |-> conn, eng |-> engine, live |-> conn \in openSocks,
     boots |-> authEngineBoots, time |-> authEngineTime, n |-> n, err |-> e]

\* a datagram sent through the conn and engine read before a Close from
\* another goroutine cleared them
StaleDatagram(n) ==
    [sock |-> shut.conn, eng |-> shut.engine, live |-> FALSE,
     boots |-> authEngineBoots, time |-> authEngineTime, n |-> n,
     err |-> "closed"]

\* V1Trap: one SetWriteDeadline and one Write, outside every retry loop
V1TrapWritesRetried(e) == {Datagram(1, "timeout"), Datagram(2, e)}
V1TrapWrites(e) == {Datagram(1, e)}

-----------------------------------------------------------------------------
(* OIDs and var-bind lists (types Oid, Oids, VarBind, VarBinds).           *)
(* An OID is a non-empty sequence of sub-identifiers; <<>> stands for nil. *)

Nil == <<>>

\* Oid.Contains: o is a prefix of v, v itself included
Contains(v, o) ==
    /\ o # Nil
    /\ Len(o) <= Len(v)
    /\ \A k \in 1..Len(o) : v[k] = o[k]

\* the lexicographic order of OIDs
OidLess(a, b) ==
    \E k \in 1..Len(b) :
        /\ k <= Len(a) + 1
        /\ \A j \in 1..(k - 1) : a[j] = b[j]
        /\ (k = Len(a) + 1 \/ a[k] < b[k])

\* where a stable sort puts x into the sorted list seq: behind every element
\* that is not greater
RECURSIVE InsertOid(_, _)
InsertOid(x, seq) ==
    IF seq = <<>> THEN <<x>>
    ELSE IF OidLess(x, Head(seq)) THEN <<x>> \o seq
    ELSE <<Head(seq)>> \o InsertOid(x, Tail(seq))

\* Oids.Sort
RECURSIVE SortOids(_)
SortOids(seq) ==
    IF seq = <<>> THEN <<>>
    ELSE InsertOid(seq[Len(seq)], SortOids(SubSeq(seq, 1, Len(seq) - 1)))

\* Oids.UniqBase: an OID that the OID kept before it is a prefix of is dropped
RECURSIVE UniqBaseFrom(_, _)
UniqBaseFrom(before, seq) ==
    IF seq = <<>> THEN <<>>
    ELSE IF Contains(Head(seq), before) THEN UniqBaseFrom(before, Tail(seq))
    ELSE <<Head(seq)>> \o UniqBaseFrom(Head(seq), Tail(seq))

UniqBase(seq) == UniqBaseFrom(Nil, seq)

VarBind(o, v) == [oid |-> o, var |-> v]

Sentinels == {"NoSuchObject", "NoSuchInstance", "EndOfMibView"}

RECURSIVE InsertBind(_, _)
InsertBind(x, seq) ==
    IF seq = <<>> THEN <<x>>
    ELSE IF OidLess(x.oid, Head(seq).oid) THEN <<x>> \o seq
    ELSE <<Head(seq)>> \o InsertBind(x, Tail(seq))

\* VarBinds.Sort: by OID, stable
RECURSIVE SortBinds(_)
SortBinds(seq) ==
    IF seq = <<>> THEN <<>>
    ELSE InsertBind(seq[Len(seq)], SortBinds(SubSeq(seq, 1, Len(seq) - 1)))

\* VarBinds.Uniq: of consecutive var-binds with one OID the first is kept
RECURSIVE UniqBinds(_)
UniqBinds(seq) ==
    IF Len(seq) <= 1 THEN seq
    ELSE LET rest == UniqBinds(Tail(seq))
         IN  IF Head(seq).oid = Head(rest).oid
             THEN <<Head(seq)>> \o Tail(rest)
             ELSE <<Head(seq)>> \o rest

\* VarBinds.MatchBaseOids
IsUnder(b, prefix) == Contains(b.oid, prefix)

MatchBaseOids(binds, prefix) == SelectSeq(binds, LAMBDA b : IsUnder(b, prefix))

\* VarBinds.MatchOid(oid) != nil
MatchOid(binds, o) == \E k \in 1..Len(binds) : binds[k].oid = o

-----------------------------------------------------------------------------
(* The agent: GetBulk over a finite MIB (RFC 3416, section 4.2.3).         *)

\* the least OID of m that is greater than x, Nil when there is none
Successor(m, x) ==
    LET above == {y \in m : OidLess(x, y)}
    IN  IF above = {} THEN Nil
        ELSE CHOOSE y \in above : \A z \in above : z = y \/ OidLess(y, z)

\* the var-bind a GetNext step from x gives: the successor, or endOfMibView
\* under the name x
NextBind(m, x) ==
    IF Successor(m, x) = Nil THEN VarBind(x, "EndOfMibView")
    ELSE VarBind(Successor(m, x), "value")

\* one repetition: a var-bind for each of the names in cur
Row(m, cur) == [j \in 1..Len(cur) |-> NextBind(m, cur[j])]

RowNames(row) == [j \in 1..Len(row) |-> row[j].oid]

RowEnded(row) == \A j \in 1..Len(row) : row[j].var = "EndOfMibView"

\* k repetitions from the names in cur; with `cut` the agent stops after the
\* first repetition that is endOfMibView throughout
RECURSIVE Repetitions(_, _, _, _)
Repetitions(m, cur, k, cut) ==
    IF k <= 0 \/ cur = <<>> THEN <<>>
    ELSE LET row == Row(m, cur)
         IN  IF cut /\ RowEnded(row) THEN row
             ELSE row \o Repetitions(m, RowNames(row), k - 1, cut)

Min(a, b) == IF a < b THEN a ELSE b

\* the var-binds of the Response to GetBulk(req, nr, mr)
BulkBinds(m, req, nr, mr, cut) ==
    LET n == Min(IF nr < 0 THEN 0 ELSE nr, Len(req))
    IN  Row(m, SubSeq(req, 1, n))
          \o Repetitions(m, SubSeq(req, n + 1, Len(req)), mr, cut)

NoError == "NoError"
NoSuchName == "NoSuchName"
GenError == "GenError"

Pdu(st, idx, binds) == [status |-> st, index |-> idx, binds |-> binds]

\* the Responses the agent may give: the correct one, whole or cut after a
\* repetition of endOfMibView; an erring agent may also answer with an
\* error-status, an error-index and the var-binds of the request
CorrectResponses(m, req, nr, mr) ==
    {Pdu(NoError, 0, BulkBinds(m, req, nr, mr, cut)) : cut \in BOOLEAN}

ErrorResponses(req) ==
    {Pdu(st, idx, [j \in 1..Len(req) |-> VarBind(req[j], "Null")]) :
        st \in {NoSuchName, GenError}, idx \in 0..Len(req)}

SeqsUpTo(S, n) == UNION {[1..k -> S] : k \in 0..n}

\* a faulty agent answers with any list of up to MaxBinds var-binds: names
\* that repeat, that do not increase, that lie outside the requested
\* subtrees, fewer var-binds than asked for, or none
FaultyBinds ==
    {VarBind(o, "value") : o \in {<<1, 1>>, <<1, 2>>}}
      \cup {VarBind(<<1, 2>>, "EndOfMibView")}

FaultyResponses == {Pdu(NoError, 0, b) : b \in SeqsUpTo(FaultyBinds, MaxBinds)}

AgentResponses(m, req, nr, mr) ==
    CorrectResponses(m, req, nr, mr)
      \cup (IF agent = "erring" THEN ErrorResponses(req) ELSE {})
      \cup (IF agent = "faulty" THEN FaultyResponses ELSE {})

-----------------------------------------------------------------------------
(* Spec: the client.                                                       *)

\* no Close has run under a pending request
NoShut == [conn |-> 0, engine |-> 0]

\* V1Trap has marshalled nothing
NoTrap == [ok |-> FALSE]

TrapIdle ==
    /\ varPduV1 = NoTrap
    /\ marbuf = <<>>
    /\ decoded = NoTrap
    /\ tpc = "idle"

NoRet == [op |-> "none", err |-> "nil", pdu |-> "none"]

\* NewSNMP: a client with no connection and no engine
NewSNMP ==
    /\ authEngineBoots = Zero
    /\ authEngineTime = Zero
    /\ conn = 0
    /\ engine = 0
    /\ openSocks = {}
    /\ nextSock = 1
    /\ nextEngine = 1
    /\ pc = "idle"
    /\ op = "none"
    /\ i = 0
    /\ entry = [conn |-> 0, engine |-> 0, open |-> {}, nextSock |-> 1,
                nextEngine |-> 1, a1 |-> Zero, a2 |-> Zero]
    /\ outs = <<>>
    /\ discOuts = <<>>
    /\ dials = 0
    /\ discRuns = 0
    /\ wire = {}
    /\ ret = NoRet
    /\ crashed = FALSE
    /\ shut = NoShut

NoPdu == Pdu("none", 0, <<>>)

NoWalkRet == [kind |-> "none", err |-> "nil", pdu |-> NoPdu]

WalkIdle ==
    /\ mib = {}
    /\ agent = "correct"
    /\ call = [oids |-> <<>>, nonRepeaters |-> 0, maxRepetitions |-> 0]
    /\ oids = <<>>
    /\ reqOids = <<>>
    /\ nonRepeaters = 0
    /\ maxRepetitions = 0
    /\ nonRepBinds = <<>>
    /\ resBinds = <<>>
    /\ wpc = "done"
    /\ wret = NoWalkRet
    /\ lastPdu = NoPdu
    /\ requests = 0

Init ==
    /\ version \in Versions
    /\ retries \in 0..MaxRetries
    /\ NewSNMP
    /\ WalkIdle
    /\ TrapIdle

\* a public method is called: the bookkeeping of the call starts afresh (w:
\* the datagrams the method writes in its first step; a1, a2: its integer
\* arguments); no call is made on a client that was shut down under a
\* request
Begin(o, w, a1, a2) ==
    /\ pc = "idle"
    /\ ~crashed
    /\ shut = NoShut
    /\ op' = o
    /\ entry' = [conn |-> conn, engine |-> engine, open |-> openSocks,
                 nextSock |-> nextSock, nextEngine |-> nextEngine,
                 a1 |-> a1, a2 |-> a2]
    /\ outs' = <<>>
    /\ discOuts' = <<>>
    /\ dials' = 0
    /\ wire' = w

\* V2TrapWithBootsTime: the deferred function runs when the call returns
DeferredNever(o) == UNCHANGED <<authEngineBoots, authEngineTime>>
Deferred(o) ==
    IF o = "V2TrapWithBootsTime"
    THEN authEngineBoots' = Zero /\ authEngineTime' = Zero
    ELSE UNCHANGED <<authEngineBoots, authEngineTime>>

\* the call returns (v2trap drops the PDU sendPdu gave it)
Finish(o, e, p) ==
    /\ pc' = "idle"
    /\ ret' = [op |-> o, err |-> e,
               pdu |-> IF o \in TrapOps \cup {"Open"} THEN "none" ELSE p]
    /\ Deferred(o)

\* sendPdu up to its call of Open; Open returns at once on an open client
sendPdu(o) ==
    /\ pc' = IF OpenIsNoop THEN "send" ELSE "dial"
    /\ i' = 0
    /\ UNCHANGED <<version, retries, conn, engine, openSocks, nextSock,
                   nextEngine, discRuns, ret, crashed>>

\* Open has dialed and the engine is there: Open returns nil, and sendPdu
\* goes on to its retry loop
OpenDone ==
    IF op = "Open"
    THEN Finish(op, "nil", "none") /\ UNCHANGED i
    ELSE /\ pc' = "send"
         /\ i' = 0
         /\ UNCHANGED <<ret, authEngineBoots, authEngineTime>>

Open ==
    /\ Begin("Open", {}, Zero, Zero)
    /\ IF OpenIsNoop
       THEN Finish("Open", "nil", "none") /\ UNCHANGED i
       ELSE /\ pc' = "dial"
            /\ i' = 0
            /\ UNCHANGED <<ret, authEngineBoots, authEngineTime>>
    /\ UNCHANGED <<version, retries, conn, engine, openSocks, nextSock,
                   nextEngine, discRuns, crashed>>
    /\ UNCHANGED <<walkVars, shut, trapVars>>

Close ==
    /\ Begin("Close", {}, Zero, Zero)
    /\ conn' = CloseEffect.conn
    /\ engine' = CloseEffect.engine
    /\ openSocks' = CloseEffect.open
    /\ discRuns' = IF CloseEffect.conn = 0 THEN 0 ELSE discRuns
    /\ Finish("Close", "nil", "none")
    /\ UNCHANGED <<version, retries, nextSock, nextEngine, i, crashed>>
    /\ UNCHANGED <<walkVars, shut, trapVars>>

\* one run of the closure Open hands to retry: net.DialTimeout
DialAttempt ==
    /\ pc = "dial"
    /\ dials' = dials + 1
    /\ \E out \in DialOutcomes :
         IF out = "ok"
         THEN /\ nextSock <= MaxSocks
              /\ conn' = nextSock
              /\ openSocks' = openSocks \cup {nextSock}
              /\ nextSock' = nextSock + 1
              /\ engine' = nextEngine
              /\ nextEngine' = nextEngine + 1
              /\ discRuns' = discRuns + 1
              /\ IF NeedsDiscovery
                 THEN /\ pc' = "discover"
                      /\ i' = 0
                      /\ UNCHANGED <<ret, authEngineBoots, authEngineTime>>
                 ELSE OpenDone
         ELSE /\ IF retry(OpenRetries, i, out)
                 THEN /\ i' = i + 1
                      /\ UNCHANGED <<pc, ret, authEngineBoots, authEngineTime>>
                 ELSE Finish(op, out, "none") /\ UNCHANGED i
              /\ UNCHANGED <<conn, engine, openSocks, nextSock, nextEngine,
                             discRuns>>
    /\ UNCHANGED <<version, retries, op, entry, outs, discOuts, wire, crashed>>
    /\ UNCHANGED <<walkVars, shut, trapVars>>

\* one round trip of engine.Discover; when discovery fails Open calls Close
DiscoverAttempt ==
    /\ pc = "discover"
    /\ \E out \in DiscoverOutcomes :
         /\ wire' = wire \cup {Datagram(Cardinality(wire) + 1, out)}
         /\ discOuts' = Append(discOuts, out)
         /\ IF out = "ok"
            THEN OpenDone /\ UNCHANGED <<conn, engine, openSocks, discRuns>>
            ELSE IF retry(sendPduRetries, i, out)
            THEN /\ i' = i + 1
                 /\ UNCHANGED <<pc, ret, authEngineBoots, authEngineTime,
                                conn, engine, openSocks, discRuns>>
            ELSE /\ conn' = OpenOnDiscoverError.conn
                 /\ engine' = OpenOnDiscoverError.engine
                 /\ openSocks' = OpenOnDiscoverError.open
                 /\ discRuns' = IF OpenOnDiscoverError.conn = 0
                                THEN 0 ELSE discRuns
                 /\ Finish(op, out, "none")
                 /\ UNCHANGED i
    /\ UNCHANGED <<version, retries, nextSock, nextEngine, op, entry, outs,
                   dials, crashed>>
    /\ UNCHANGED <<walkVars, shut, trapVars>>

\* one run of the closure sendPdu hands to retry: engine.SendPdu. The closure
\* reads s.engine and s.conn with no synchronisation: after a Close from
\* another goroutine it finds them nil and dereferences the nil engine, or
\* still finds the old values and sends on the closed socket, which fails
\* with an error that retry does not retry
SendAttempt ==
    /\ pc = "send"
    /\ IF conn = 0 \/ engine = 0
       THEN \/ /\ crashed' = TRUE
               /\ pc' = "idle"
               /\ UNCHANGED <<i, outs, wire, ret, authEngineBoots,
                              authEngineTime>>
            \/ /\ shut # NoShut
               /\ wire' = wire \cup {StaleDatagram(Cardinality(wire) + 1)}
               /\ outs' = Append(outs, Outcome("closed", "none"))
               /\ Finish(op, "closed", "none")
               /\ UNCHANGED <<i, crashed>>
       ELSE /\ \E out \in AttemptOutcomes(op) :
                 /\ wire' = wire \cup {Datagram(Cardinality(wire) + 1,
                                                 out.err)}
                 /\ outs' = Append(outs, out)
                 /\ IF retry(sendPduRetries, i, sendPduClosureErr(out))
                    THEN /\ i' = i + 1
                         /\ UNCHANGED <<pc, ret, authEngineBoots,
                                        authEngineTime>>
                    ELSE Finish(op, out.err, sendPduResult(out)) /\ UNCHANGED i
            /\ UNCHANGED crashed
    /\ UNCHANGED <<version, retries, conn, engine, openSocks, nextSock,
                   nextEngine, op, entry, discOuts, dials, discRuns>>
    /\ UNCHANGED <<walkVars, shut, trapVars>>

-----------------------------------------------------------------------------
(* The request entry points.                                               *)

\* a call that returns an error before it reaches sendPdu
Rejected(o) ==
    /\ Finish(o, "ArgumentError", "none")
    /\ UNCHANGED <<version, retries, conn, engine, openSocks, nextSock,
                   nextEngine, i, discRuns, crashed>>

GetRequest ==
    /\ Begin("GetRequest", {}, Zero, Zero)
    /\ sendPdu("GetRequest")
    /\ UNCHANGED <<authEngineBoots, authEngineTime>>
    /\ UNCHANGED <<walkVars, shut, trapVars>>

GetNextRequest ==
    /\ Begin("GetNextRequest", {}, Zero, Zero)
    /\ sendPdu("GetNextRequest")
    /\ UNCHANGED <<authEngineBoots, authEngineTime>>
    /\ UNCHANGED <<walkVars, shut, trapVars>>

GetBulkRequest ==
    /\ \E nr \in ArgInts, mr \in ArgInts :
         /\ Begin("GetBulkRequest", {}, nr, mr)
         /\ IF GetBulkArgError(version, nr, mr)
            THEN Rejected("GetBulkRequest")
            ELSE /\ sendPdu("GetBulkRequest")
                 /\ UNCHANGED <<authEngineBoots, authEngineTime>>
    /\ UNCHANGED <<walkVars, shut, trapVars>>

\* v2trap: the version check, then sendPdu
v2trap(o) ==
    IF v2trapArgError
    THEN Rejected(o)
    ELSE sendPdu(o)

V2Trap ==
    /\ Begin("V2Trap", {}, Zero, Zero)
    /\ v2trap("V2Trap")
    /\ UNCHANGED <<authEngineBoots, authEngineTime>>
    /\ UNCHANGED <<walkVars, shut, trapVars>>

InformRequest ==
    /\ Begin("InformRequest", {}, Zero, Zero)
    /\ v2trap("InformRequest")
    /\ UNCHANGED <<authEngineBoots, authEngineTime>>
    /\ UNCHANGED <<walkVars, shut, trapVars>>

\* the range checks come before the defer and the stores into s.args; the
\* deferred reset runs when v2trap returns, at once or after sendPdu
V2TrapWithBootsTime ==
    /\ \E eBoots \in ArgInts, eTime \in ArgInts :
         /\ Begin("V2TrapWithBootsTime", {}, eBoots, eTime)
         /\ IF BootsTimeArgError(eBoots, eTime)
            THEN /\ pc' = "idle"
                 /\ ret' = [op |-> "V2TrapWithBootsTime",
                            err |-> "ArgumentError", pdu |-> "none"]
                 /\ UNCHANGED <<authEngineBoots, authEngineTime>>
                 /\ UNCHANGED <<version, retries, conn, engine, openSocks,
                                nextSock, nextEngine, i, discRuns, crashed>>
            ELSE IF v2trapArgError
            THEN Rejected("V2TrapWithBootsTime")
            ELSE /\ authEngineBoots' = eBoots
                 /\ authEngineTime' = eTime
                 /\ sendPdu("V2TrapWithBootsTime")
    /\ UNCHANGED <<walkVars, shut, trapVars>>

\* V1Trap: the version check, the marshalling, then SetWriteDeadline and
\* Write on s.conn with no call of Open before them
V1Trap ==
    /\ IF V1TrapArgError
       THEN /\ Begin("V1Trap", {}, Zero, Zero)
            /\ Rejected("V1Trap")
       ELSE IF conn = 0
       THEN /\ Begin("V1Trap", {}, Zero, Zero)
            /\ crashed' = TRUE
            /\ UNCHANGED <<pc, ret, authEngineBoots, authEngineTime, version,
                           retries, conn, engine, openSocks, nextSock,
                           nextEngine, i, discRuns>>
       ELSE /\ \E e \in {"nil", "timeout", "transport"} :
                 /\ Begin("V1Trap", V1TrapWrites(e), Zero, Zero)
                 /\ Finish("V1Trap", e, "none")
            /\ UNCHANGED <<version, retries, conn, engine, openSocks,
                           nextSock, nextEngine, i, discRuns, crashed>>
    /\ UNCHANGED <<walkVars, shut, trapVars>>

Next ==
    \/ Open
    \/ Close
    \/ DialAttempt
    \/ DiscoverAttempt
    \/ SendAttempt
    \/ GetRequest
    \/ GetNextRequest
    \/ GetBulkRequest
    \/ V2Trap
    \/ InformRequest
    \/ V2TrapWithBootsTime
    \/ V1Trap

Spec == Init /\ [][Next]_vars

-----------------------------------------------------------------------------
(* SpecShutdown: the client with a Close called from another goroutine     *)
(* while a request is in its retry loop.                                   *)

\* what Close does to the client, whatever the request is doing
CloseUnderRequest ==
    /\ shut = NoShut
    /\ pc = "send"
    /\ conn # 0
    /\ shut' = [conn |-> conn, engine |-> engine]
    /\ conn' = CloseEffect.conn
    /\ engine' = CloseEffect.engine
    /\ openSocks' = CloseEffect.open
    /\ discRuns' = 0
    /\ UNCHANGED <<version, retries, nextSock, nextEngine, op, entry,
                   discOuts, dials, crashed>>
    /\ UNCHANGED <<walkVars, trapVars>>

\* Close runs while an attempt is blocked in engine.SendPdu: the datagram of
\* the attempt is out, and the attempt fails with the error of the closed
\* socket, which retry does not retry
CloseDuringAttempt ==
    /\ CloseUnderRequest
    /\ wire' = wire \cup {Datagram(Cardinality(wire) + 1, "closed")}
    /\ outs' = Append(outs, Outcome("closed", "none"))
    /\ Finish(op, "closed", "none")
    /\ UNCHANGED i

\* Close runs after an attempt has failed and before retry runs the next one
CloseBetweenAttempts ==
    /\ CloseUnderRequest
    /\ outs # <<>>
    /\ UNCHANGED <<pc, i, outs, wire, ret, authEngineBoots, authEngineTime>>

NextShutdown ==
    \/ Next
    \/ CloseDuringAttempt
    \/ CloseBetweenAttempts

SpecShutdown == Init /\ [][NextShutdown]_vars

-----------------------------------------------------------------------------
(* SpecTrap: the bytes V1Trap builds, and what a BER decoder reads back.   *)
(* A byte is a number in 0..255, a datagram a sequence of bytes. The text  *)
(* forms of the input are modelled parsed: the enterprise OID as its       *)
(* sub-identifiers, the agent address as the numbers between its dots.     *)

\* BER length of the codec and of asn1.Marshal: short form below 128, long
\* form (0x80 | number of length bytes) otherwise
EncodeLength(n) ==
    IF n < 128 THEN <<n>>
    ELSE IF n < 256 THEN <<129, n>>
    ELSE <<130, n \div 256, n % 256>>

Tlv(tag, content) == <<tag>> \o EncodeLength(Len(content)) \o content

\* NewInteger(v).Marshal: the minimum two's-complement bytes of v
RECURSIVE IntegerBytes(_)
IntegerBytes(v) ==
    IF -128 <= v /\ v <= 127 THEN <<v % 256>>
    ELSE IntegerBytes(v \div 256) \o <<v % 256>>

MarshalInteger(v) == Tlv(2, IntegerBytes(v))

\* NewTimeTicks(v).Marshal: the minimum unsigned bytes of v, with a leading
\* zero byte when the first bit is set (v below 2^31 here)
MarshalTimeTicks(v) == Tlv(67, IntegerBytes(v))

MarshalOctetString(bytes) == Tlv(4, bytes)

MarshalIpaddress(bytes) == Tlv(64, bytes)

\* one sub-identifier in base 128, the high bit set on all bytes but the last
RECURSIVE SubIdBytes(_, _)
SubIdBytes(v, last) ==
    LET b == (v % 128) + (IF last THEN 0 ELSE 128)
    IN  IF v < 128 THEN <<b>> ELSE SubIdBytes(v \div 128, FALSE) \o <<b>>

RECURSIVE SubIdsBytes(_)
SubIdsBytes(subIds) ==
    IF subIds = <<>> THEN <<>>
    ELSE SubIdBytes(Head(subIds), TRUE) \o SubIdsBytes(Tail(subIds))

\* Oid.Marshal: the first two sub-identifiers packed as 40*a + b
MarshalOid(o) == Tlv(6, <<40 * o[1] + o[2]>> \o SubIdsBytes(Tail(Tail(o))))

\* args.Community of the example program: "public"
Community == <<112, 117, 98, 108, 105, 99>>

\* lines 314-320: each part of the address cut to a byte
V1TrapAgentAddr(parts) == [n \in 1..Len(parts) |-> parts[n] % 256]

\* lines 305-352: the fields of the Trap-v1 PDU and the empty var-bind list
V1TrapBody(t) ==
    MarshalOid(t.Enterprise)
      \o MarshalIpaddress(V1TrapAgentAddr(t.AgentAddr))
      \o MarshalInteger(t.GenericTrap)
      \o MarshalInteger(t.SpecificTrap)
      \o MarshalTimeTicks(t.TimeStamp)
      \o <<48, 0>>

\* lines 300 and 354: tag 0xa4, then one byte that takes the length of the
\* body cut to a byte
V1TrapLength(n) == <<n % 256>>

V1TrapData(t) == <<164>> \o V1TrapLength(Len(V1TrapBody(t))) \o V1TrapBody(t)

\* lines 283-356: version, community and the Trap-v1 PDU in a SEQUENCE
V1TrapMarshalled(t) ==
    Tlv(48, MarshalInteger(version) \o MarshalOctetString(Community)
              \o V1TrapData(t))

\* ---- the receiver: a BER decoder ----

BadTlv == [ok |-> FALSE, tag |-> -1, content |-> <<>>, next |-> 0]

\* the number in the length bytes of the long form; no datagram is longer
\* than 65535 bytes, above which the number is not followed up
LengthValue(bytes) ==
    LET n == Len(bytes)
    IN  IF \E k \in 1..(n - 2) : bytes[k] # 0 THEN 65536
        ELSE (IF n >= 2 THEN bytes[n - 1] * 256 ELSE 0) + bytes[n]

\* the TLV that starts at byte pos of bytes
ReadTlv(bytes, pos) ==
    IF pos + 1 > Len(bytes) THEN BadTlv
    ELSE LET first == bytes[pos + 1]
             nBytes == IF first < 128 THEN 0 ELSE first - 128
             start == pos + 2 + nBytes
         IN  IF first >= 128 /\ (nBytes = 0 \/ start - 1 > Len(bytes))
             THEN BadTlv
             ELSE LET len == IF first < 128 THEN first
                             ELSE LengthValue(SubSeq(bytes, pos + 2,
                                                     pos + 1 + nBytes))
                  IN  IF start + len - 1 > Len(bytes) THEN BadTlv
                      ELSE [ok |-> TRUE, tag |-> bytes[pos],
                            content |-> SubSeq(bytes, start, start + len - 1),
                            next |-> start + len]

\* the TLVs that fill bytes from byte pos on
RECURSIVE ReadAll(_, _)
ReadAll(bytes, pos) ==
    IF pos > Len(bytes) THEN <<>>
    ELSE LET t == ReadTlv(bytes, pos)
         IN  IF t.ok THEN <<t>> \o ReadAll(bytes, t.next) ELSE <<t>>

\* the TLVs are sound and carry these tags, in this order
HasTags(tlvs, tags) ==
    /\ Len(tlvs) = Len(tags)
    /\ \A k \in 1..Len(tlvs) : tlvs[k].ok /\ tlvs[k].tag = tags[k]

RECURSIVE SignedValue(_)
SignedValue(bytes) ==
    IF Len(bytes) = 1
    THEN (IF bytes[1] >= 128 THEN bytes[1] - 256 ELSE bytes[1])
    ELSE SignedValue(SubSeq(bytes, 1, Len(bytes) - 1)) * 256
           + bytes[Len(bytes)]

\* an Integer or TimeTicks of 1 to 4 bytes
IsInt32(bytes) == Len(bytes) \in 1..4

\* the number in the bytes of one sub-identifier
RECURSIVE SubIdValue(_)
SubIdValue(bytes) ==
    IF bytes = <<>> THEN 0
    ELSE SubIdValue(SubSeq(bytes, 1, Len(bytes) - 1)) * 128
           + (bytes[Len(bytes)] % 128)

\* the sub-identifiers in bytes; -1 marks a sub-identifier that is cut off or
\* does not fit 31 bits
RECURSIVE DecodeSubIds(_)
DecodeSubIds(bytes) ==
    IF bytes = <<>> THEN <<>>
    ELSE LET ends == {k \in 1..Len(bytes) : bytes[k] < 128}
         IN  IF ends = {} THEN <<-1>>
             ELSE LET end == CHOOSE k \in ends : \A j \in ends : k <= j
                  IN  IF end > 5 \/ (end = 5 /\ bytes[1] > 135) THEN <<-1>>
                      ELSE <<SubIdValue(SubSeq(bytes, 1, end))>>
                             \o DecodeSubIds(SubSeq(bytes, end + 1,
                                                    Len(bytes)))

DecodeOid(bytes) ==
    IF bytes = <<>> THEN <<-1>>
    ELSE LET a == Min(bytes[1] \div 40, 2)
         IN  <<a, bytes[1] - 40 * a>> \o DecodeSubIds(Tail(bytes))

\* a version 1 message with a Trap-v1 PDU, read field by field
DecodeTrapV1(bytes) ==
    LET outer == ReadAll(bytes, 1)
    IN  IF ~HasTags(outer, <<48>>) THEN NoTrap
        ELSE LET msg == ReadAll(outer[1].content, 1)
             IN  IF ~HasTags(msg, <<2, 4, 164>>) THEN NoTrap
                 ELSE LET f == ReadAll(msg[3].content, 1)
                      IN  IF \/ ~HasTags(f, <<6, 64, 2, 2, 67, 48>>)
                             \/ Len(f[2].content) # 4
                             \/ ~IsInt32(f[3].content)
                             \/ ~IsInt32(f[4].content)
                             \/ ~IsInt32(f[5].content)
                          THEN NoTrap
                          ELSE [ok |-> TRUE,
                                Enterprise |-> DecodeOid(f[1].content),
                                AgentAddr |-> f[2].content,
                                GenericTrap |-> SignedValue(f[3].content),
                                SpecificTrap |-> SignedValue(f[4].content),
                                TimeStamp |-> SignedValue(f[5].content)]

\* ---- the inputs ----

\* an OID of n sub-identifiers, the largest a signed 32-bit number holds
LongOid(n) ==
    [k \in 1..n |-> IF k = 1 THEN 1 ELSE IF k = 2 THEN 3 ELSE MaxInt32]

EnterpriseOids ==
    {<<1, 3, 6, 1, 4, 1, 37072, 302, 2, 3>>}
      \cup {LongOid(n) : n \in 2..MaxSubIds}

TrapPdus ==
    [ok : {TRUE},
     Enterprise : EnterpriseOids,
     AgentAddr : {<<192, 168, 16, 221>>, <<10, 0, 0, 1>>},
     GenericTrap : 0..6,
     SpecificTrap : {-1, 0, 128, MaxInt32},
     TimeStamp : {0, 11934, MaxInt32}]

TrapInit ==
    /\ version = V1
    /\ retries = 0
    /\ NewSNMP
    /\ WalkIdle
    /\ varPduV1 \in TrapPdus
    /\ marbuf = <<>>
    /\ decoded = NoTrap
    /\ tpc = "input"

\* V1Trap up to asn1.Marshal(raw)
V1TrapMarshal ==
    /\ tpc = "input"
    /\ marbuf' = V1TrapMarshalled(varPduV1)
    /\ tpc' = "marshalled"
    /\ UNCHANGED <<varPduV1, decoded>>
    /\ UNCHANGED <<clientVars, walkVars, shut>>

\* the receiver of the datagram decodes it
TrapReceive ==
    /\ tpc = "marshalled"
    /\ decoded' = DecodeTrapV1(marbuf)
    /\ tpc' = "decoded"
    /\ UNCHANGED <<varPduV1, marbuf>>
    /\ UNCHANGED <<clientVars, walkVars, shut>>

TrapNext ==
    \/ V1TrapMarshal
    \/ TrapReceive

SpecTrap == TrapInit /\ [][TrapNext]_vars

-----------------------------------------------------------------------------
(* SpecWalk: GetBulkWalk.                                                  *)

\* the OIDs a MIB is made of, and the OIDs a walk is asked for
MibUniverse == {<<1>>, <<1, 1>>, <<1, 2>>, <<1, 3>>, <<2>>, <<2, 1>>,
                <<2, 2>>, <<3>>}

ReqUniverse == {<<1>>, <<1, 1>>, <<2>>}

WalkInit ==
    /\ version = V2c
    /\ retries = 0
    /\ NewSNMP
    /\ mib \in {m \in SUBSET MibUniverse : Cardinality(m) <= MaxMib}
    /\ agent \in {"correct", "erring", "unreachable"}
    /\ call \in [oids : SeqsUpTo(ReqUniverse, MaxOids),
                 nonRepeaters : (-1)..MaxOids,
                 maxRepetitions : (-1)..MaxRep]
    /\ oids = call.oids
    /\ reqOids = <<>>
    /\ nonRepeaters = call.nonRepeaters
    /\ maxRepetitions = call.maxRepetitions
    /\ nonRepBinds = <<>>
    /\ resBinds = <<>>
    /\ wpc = "entry"
    /\ wret = NoWalkRet
    /\ lastPdu = NoPdu
    /\ requests = 0
    /\ TrapIdle

\* a walk against the faulty agent, whose answers do not depend on a MIB
WalkInitFaulty ==
    /\ version = V2c
    /\ retries = 0
    /\ NewSNMP
    /\ mib = {}
    /\ agent = "faulty"
    /\ call \in [oids : SeqsUpTo(ReqUniverse, MaxOids),
                 nonRepeaters : 0..MaxOids,
                 maxRepetitions : 0..MaxBinds]
    /\ oids = call.oids
    /\ reqOids = <<>>
    /\ nonRepeaters = call.nonRepeaters
    /\ maxRepetitions = call.maxRepetitions
    /\ nonRepBinds = <<>>
    /\ resBinds = <<>>
    /\ wpc = "entry"
    /\ wret = NoWalkRet
    /\ lastPdu = NoPdu
    /\ requests = 0
    /\ TrapIdle

\* `oids[:nonRepeaters]` and `oids[nonRepeaters:]` are in range
SliceInRange(n, seq) == 0 <= n /\ n <= Len(seq)

\* line 209: the non-repeaters as they are, the repeaters sorted and reduced
PrepareOids(seq, n) ==
    SubSeq(seq, 1, n) \o UniqBase(SortOids(SubSeq(seq, n + 1, Len(seq))))

\* the abort rule of lines 218-221
AbortsOnAnyError(pdu, n) == pdu.status # NoError
AbortsIgnoringIndex(pdu, n) ==
    pdu.status # NoError /\ pdu.status # NoSuchName
Aborts(pdu, n) ==
    pdu.status # NoError /\ (pdu.status # NoSuchName \/ pdu.index <= n)

\* line 233
Filled(varBinds, req, mr) == Len(varBinds) = Len(req) * mr

\* line 256: the "filled" short-circuit
ExhaustedOffByOne(filled, mLength, mr) == filled /\ mLength <= mr
Exhausted(filled, mLength, mr) == filled /\ mLength < mr

\* lines 237-258 for position idx: st holds resBinds and reqOids
ProcessPositionNoSeenCheck(st, idx, varBinds, filled, mr, base) ==
    LET matched == MatchBaseOids(varBinds, base[idx])
        mLength == Len(matched)
    IN  IF mLength = 0
        THEN [st EXCEPT !.req[idx] = Nil]
        ELSE LET values == SelectSeq(matched, LAMBDA b : b.var \notin Sentinels)
                 hasError == Len(values) < mLength
                 last == IF values = <<>> THEN st.req[idx]
                         ELSE values[Len(values)].oid
             IN  [res |-> st.res \o values,
                  req |-> [st.req EXCEPT ![idx] =
                             IF hasError \/ Exhausted(filled, mLength, mr)
                             THEN Nil ELSE last]]
ProcessPosition(st, idx, varBinds, filled, mr, base) ==
    LET matched == MatchBaseOids(varBinds, base[idx])
        mLength == Len(matched)
    IN  IF mLength = 0 \/ MatchOid(st.res, matched[mLength].oid)
        THEN [st EXCEPT !.req[idx] = Nil]
        ELSE LET values == SelectSeq(matched, LAMBDA b : b.var \notin Sentinels)
                 hasError == Len(values) < mLength
                 last == IF values = <<>> THEN st.req[idx]
                         ELSE values[Len(values)].oid
             IN  [res |-> st.res \o values,
                  req |-> [st.req EXCEPT ![idx] =
                             IF hasError \/ Exhausted(filled, mLength, mr)
                             THEN Nil ELSE last]]

\* the loop of line 236 over the positions idx..Len(st.req)
RECURSIVE ProcessFrom(_, _, _, _, _, _)
ProcessFrom(st, idx, varBinds, filled, mr, base) ==
    IF idx > Len(st.req) THEN st
    ELSE ProcessFrom(ProcessPosition(st, idx, varBinds, filled, mr, base),
                     idx + 1, varBinds, filled, mr, base)

\* lines 262-267: the positions whose reqOids entry is nil are dropped from seq
RECURSIVE Sweep(_, _)
Sweep(req, seq) ==
    IF req = <<>> THEN <<>>
    ELSE IF Head(req) = Nil THEN Sweep(Tail(req), Tail(seq))
    ELSE <<Head(seq)>> \o Sweep(Tail(req), Tail(seq))

\* line 270
FinalBindsUnsorted(nonRep, res) == nonRep \o res
FinalBinds(nonRep, res) == nonRep \o UniqBinds(SortBinds(res))

WalkReturn(kind, err, pdu) ==
    /\ wpc' = "done"
    /\ wret' = [kind |-> kind, err |-> err, pdu |-> pdu]

\* lines 207-211
WalkEntry ==
    /\ wpc = "entry"
    /\ IF SliceInRange(nonRepeaters, oids)
       THEN /\ oids' = PrepareOids(oids, nonRepeaters)
            /\ reqOids' = PrepareOids(oids, nonRepeaters)
            /\ wpc' = "loop"
            /\ UNCHANGED <<wret, crashed>>
       ELSE /\ crashed' = TRUE
            /\ WalkReturn("panic", "nil", NoPdu)
            /\ UNCHANGED <<oids, reqOids>>
    /\ UNCHANGED <<mib, agent, call, nonRepeaters, maxRepetitions, nonRepBinds,
                   resBinds, lastPdu, requests>>
    /\ UNCHANGED <<version, retries, authEngineBoots, authEngineTime, conn,
                   engine, openSocks, nextSock, nextEngine, pc, op, i, entry,
                   outs, discOuts, dials, discRuns, wire, ret, shut, trapVars>>

\* line 213 with the list empty, and lines 270-271
WalkEnd ==
    /\ wpc = "loop"
    /\ reqOids = <<>>
    /\ WalkReturn("pdu", "nil", Pdu(NoError, 0, FinalBinds(nonRepBinds, resBinds)))
    /\ UNCHANGED <<mib, agent, call, oids, reqOids, nonRepeaters,
                   maxRepetitions, nonRepBinds, resBinds, lastPdu, requests>>
    /\ UNCHANGED <<clientVars, shut, trapVars>>

\* lines 214-217: GetBulkRequest returns an error
WalkRequestFails ==
    /\ wpc = "loop"
    /\ reqOids # <<>>
    /\ IF GetBulkArgError(version, WideOfSmall(nonRepeaters),
                          WideOfSmall(maxRepetitions))
       THEN WalkReturn("err", "ArgumentError", NoPdu) /\ UNCHANGED requests
       ELSE /\ agent = "unreachable"
            /\ WalkReturn("err", "timeout", NoPdu)
            /\ requests' = requests + 1
    /\ UNCHANGED <<mib, agent, call, oids, reqOids, nonRepeaters,
                   maxRepetitions, nonRepBinds, resBinds, lastPdu>>
    /\ UNCHANGED <<clientVars, shut, trapVars>>

\* lines 214-268: one iteration of the loop with a Response received
WalkIteration ==
    /\ wpc = "loop"
    /\ reqOids # <<>>
    /\ ~GetBulkArgError(version, WideOfSmall(nonRepeaters),
                        WideOfSmall(maxRepetitions))
    /\ requests' = requests + 1
    /\ \E pdu \in AgentResponses(mib, reqOids, nonRepeaters, maxRepetitions) :
         /\ lastPdu' = pdu
         /\ IF Aborts(pdu, nonRepeaters)
            THEN /\ WalkReturn("raw", "nil", pdu)
                 /\ UNCHANGED <<oids, reqOids, nonRepeaters, nonRepBinds,
                                resBinds, crashed>>
            ELSE IF ~SliceInRange(nonRepeaters, pdu.binds)
            THEN /\ crashed' = TRUE
                 /\ WalkReturn("panic", "nil", NoPdu)
                 /\ UNCHANGED <<oids, reqOids, nonRepeaters, nonRepBinds,
                                resBinds>>
            ELSE LET n == nonRepeaters
                     varBinds == SubSeq(pdu.binds, n + 1, Len(pdu.binds))
                     base == SubSeq(oids, n + 1, Len(oids))
                     req == SubSeq(reqOids, n + 1, Len(reqOids))
                     filled == Filled(varBinds, req, maxRepetitions)
                     st == ProcessFrom([res |-> resBinds, req |-> req], 1,
                                       UniqBinds(SortBinds(varBinds)), filled,
                                       maxRepetitions, base)
                 IN  /\ nonRepBinds' = nonRepBinds \o SubSeq(pdu.binds, 1, n)
                     /\ nonRepeaters' = 0
                     /\ resBinds' = st.res
                     /\ reqOids' = Sweep(st.req, st.req)
                     /\ oids' = Sweep(st.req, base)
                     /\ UNCHANGED <<wpc, wret, crashed>>
    /\ UNCHANGED <<mib, agent, call, maxRepetitions>>
    /\ UNCHANGED <<version, retries, authEngineBoots, authEngineTime, conn,
                   engine, openSocks, nextSock, nextEngine, pc, op, i, entry,
                   outs, discOuts, dials, discRuns, wire, ret, shut, trapVars>>

WalkNext ==
    \/ WalkEntry
    \/ WalkEnd
    \/ WalkRequestFails
    \/ WalkIteration

SpecWalk == WalkInit /\ [][WalkNext]_vars

\* the walk against every agent of the model, the faulty one included
SpecWalkAny == (WalkInit \/ WalkInitFaulty) /\ [][WalkNext]_vars

-----------------------------------------------------------------------------
(* Claims about the client, checked under Spec.                            *)

AllTimeouts(seq) == seq # <<>> /\ \A k \in 1..Len(seq) : seq[k] = "timeout"

Errs(seq) == [k \in 1..Len(seq) |-> seq[k].err]

\* the last call has returned and was a call of o
Returned(o) == pc = "idle" /\ ~crashed /\ op = o /\ ret.op = o

\* C3: a request (the discovery request of Open included) never makes more
\* than retries+1 attempts, and a request all of whose attempts timed out made
\* exactly retries+1 of them and returned the timeout error.
C3_RetryBound ==
    /\ Len(outs) <= retries + 1
    /\ Len(discOuts) <= retries + 1
    /\ (pc = "idle" /\ op \in SendOps /\ AllTimeouts(Errs(outs)))
         => (Len(outs) = retries + 1 /\ ret.op = op /\ ret.err = "timeout")
    /\ (pc = "idle" /\ AllTimeouts(discOuts))
         => (Len(discOuts) = retries + 1 /\ outs = <<>> /\ ret.op = op
             /\ ret.err = "timeout")

C3_Witness ==
    /\ retries = 2
    /\ Returned("GetRequest")
    /\ AllTimeouts(Errs(outs))
    /\ Len(outs) = 3
    /\ ret.err = "timeout"

\* C4: when the first j attempts of a request time out (j <= retries) and
\* attempt j+1 succeeds, the request has returned the PDU of attempt j+1 with
\* a nil error, and no attempt follows a successful one.
C4_RetrySuccess ==
    /\ \A k \in 1..Len(outs) : outs[k].err = "nil" => k = Len(outs)
    /\ \A j \in 0..retries :
         (/\ Len(outs) = j + 1
          /\ \A k \in 1..j : outs[k].err = "timeout"
          /\ outs[j + 1].err = "nil")
           => (/\ pc = "idle"
               /\ ret.op = op
               /\ ret.err = "nil"
               /\ op \in ConfirmedOps \ TrapOps => ret.pdu = outs[j + 1].pdu)

C4_Witness ==
    /\ retries = 2
    /\ Returned("GetRequest")
    /\ Len(outs) = 3
    /\ outs[1].err = "timeout"
    /\ outs[2].err = "timeout"
    /\ outs[3] = Outcome("nil", "ok")
    /\ ret.err = "nil"
    /\ ret.pdu = "ok"

\* C5: an attempt that ends in a decode error or a security error, or that
\* yields a Response with a non-zero error-status, is the last attempt of its
\* request, whose caller gets the outcome of that attempt.
NonTransient(out) ==
    out.err \in {"decode", "security"} \/ out.pdu = "errstatus"

C5_NoRetryOfNonTransient ==
    \A k \in 1..Len(outs) :
        NonTransient(outs[k])
          => (/\ k = Len(outs)
              /\ pc = "idle"
              /\ ret.op = op
              /\ ret.err = outs[k].err
              /\ op \notin TrapOps => ret.pdu = outs[k].pdu)

C5_Witness ==
    /\ retries = 2
    /\ Returned("GetBulkRequest")
    /\ Len(outs) = 2
    /\ outs[1].err = "timeout"
    /\ outs[2].err = "decode"
    /\ ret.err = "decode"

\* C6: the client holds at most one open socket and one engine: the only
\* socket open is the one in s.conn, there is an engine only beside a socket,
\* and discovery has run exactly once since the socket was dialed; a call that
\* finds the client open (Open itself, or the Open inside a request) dials
\* nothing, creates no engine and runs no discovery.
C6_SingleConnection ==
    /\ Cardinality(openSocks) <= 1
    /\ openSocks = IF conn = 0 THEN {} ELSE {conn}
    /\ (engine # 0) <=> (conn # 0)
    /\ discRuns = IF conn = 0 THEN 0 ELSE 1
    /\ (op \notin {"none", "Close"} /\ entry.conn # 0)
         => (/\ conn = entry.conn
             /\ engine = entry.engine
             /\ nextSock = entry.nextSock
             /\ nextEngine = entry.nextEngine
             /\ dials = 0
             /\ discOuts = <<>>
             /\ pc \in {"idle", "send"})
    /\ (Returned("Open") /\ entry.conn # 0) => (wire = {} /\ ret.err = "nil")

C6_Witness ==
    /\ version = V3
    /\ Returned("Open")
    /\ entry.conn # 0
    /\ conn = entry.conn
    /\ discRuns = 1

\* C7: when Close returns the socket the client held is closed and the client
\* has neither socket nor engine, and a Close of a closed client changes
\* nothing; every datagram of a request goes out on a socket that is open and
\* with an engine, and in a request that found the client closed both were
\* made by that request, the engine having been discovered (V3) before the
\* first send.
C7_CloseAndReopen ==
    /\ Returned("Close")
         => (/\ conn = 0
             /\ engine = 0
             /\ entry.conn \notin openSocks
             /\ openSocks = entry.open \ {entry.conn}
             /\ entry.conn = 0
                  => (engine = entry.engine /\ openSocks = entry.open)
             /\ nextSock = entry.nextSock
             /\ nextEngine = entry.nextEngine)
    /\ op \in SendOps
         => \A d \in wire :
              /\ d.live
              /\ d.sock # 0
              /\ d.eng # 0
              /\ entry.conn = 0
                   => (d.sock >= entry.nextSock /\ d.eng >= entry.nextEngine)
    /\ (op \in SendOps /\ entry.conn = 0 /\ outs # <<>>)
         => (/\ dials > 0
             /\ version = V3
                  => (discOuts # <<>> /\ discOuts[Len(discOuts)] = "ok"))

C7_Witness ==
    /\ version = V3
    /\ Returned("GetRequest")
    /\ entry.conn = 0
    /\ entry.nextSock = 2
    /\ conn = 2
    /\ engine = 2
    /\ ret.pdu = "ok"
    /\ {[sock |-> d.sock, eng |-> d.eng, live |-> d.live] : d \in wire}
         = {[sock |-> 2, eng |-> 2, live |-> TRUE]}

\* C8: a call with an invalid argument returns an ArgumentError in its first
\* step and leaves the connection, the engine, the sockets and the stored
\* boots/time as they were, having dialed nothing and written no datagram.
OutOfRange(v) == v.hi # 0

InvalidCall ==
    \/ op \in {"GetBulkRequest", "V2Trap", "V2TrapWithBootsTime",
               "InformRequest"} /\ version = V1
    \/ op = "V1Trap" /\ version \in {V2c, V3}
    \/ op \in {"GetBulkRequest", "V2TrapWithBootsTime"}
         /\ (OutOfRange(entry.a1) \/ OutOfRange(entry.a2))

NoIO ==
    /\ conn = entry.conn
    /\ engine = entry.engine
    /\ openSocks = entry.open
    /\ nextSock = entry.nextSock
    /\ nextEngine = entry.nextEngine
    /\ dials = 0
    /\ wire = {}
    /\ outs = <<>>
    /\ discOuts = <<>>
    /\ authEngineBoots = Zero
    /\ authEngineTime = Zero

C8_ArgumentErrorsPrecedeIO ==
    /\ InvalidCall
         => (/\ pc = "idle"
             /\ ~crashed
             /\ ret = [op |-> op, err |-> "ArgumentError", pdu |-> "none"]
             /\ NoIO)
    /\ (pc = "idle" /\ ret.op = op /\ ret.err = "ArgumentError") => NoIO

C8_Witness ==
    /\ version = V1
    /\ Returned("V2TrapWithBootsTime")
    /\ entry.conn # 0
    /\ entry.a1 = Wide(0, MaxInt32)
    /\ ret.err = "ArgumentError"
    /\ conn = entry.conn

-----------------------------------------------------------------------------
(* Claims about GetBulkWalk, checked under SpecWalk.                       *)

\* the entries of the MIB under prefix p (p itself is not under p)
Subtree(p) == {m \in mib : Contains(m, p) /\ m # p}

BindOids(binds) == {binds[k].oid : k \in 1..Len(binds)}

\* the OIDs of the list increase strictly: lexicographic order, none twice
StrictlySorted(binds) ==
    \A k \in 1..(Len(binds) - 1) : OidLess(binds[k].oid, binds[k + 1].oid)

AllValues(binds) == \A k \in 1..Len(binds) : binds[k].var = "value"

\* the call is a walk of repeaters only, answered by a correct agent
RepeaterWalk ==
    /\ agent = "correct"
    /\ call.nonRepeaters = 0
    /\ call.maxRepetitions >= 1

PairwiseDisjoint(seq) ==
    \A a, b \in 1..Len(seq) :
        a # b => ~Contains(seq[a], seq[b])

WalkDone == wpc = "done"

\* C1: GetBulkWalk([P], 0, k) with k >= 1 against a correct agent returns a
\* Response whose var-binds are exactly the MIB entries under P, each once,
\* in lexicographic order.
C1_WalkCompleteness ==
    (WalkDone /\ RepeaterWalk /\ Len(call.oids) = 1)
      => (/\ wret.kind = "pdu"
          /\ wret.err = "nil"
          /\ wret.pdu.status = NoError
          /\ BindOids(wret.pdu.binds) = Subtree(call.oids[1])
          /\ StrictlySorted(wret.pdu.binds)
          /\ AllValues(wret.pdu.binds))

\* C2: with several repeater OIDs whose subtrees are pairwise disjoint, the
\* walk against a correct agent returns the union of the entries under the
\* requested OIDs, each once.
C2_MultiSubtreeWalk ==
    (WalkDone /\ RepeaterWalk /\ Len(call.oids) >= 2
       /\ PairwiseDisjoint(call.oids))
      => (/\ wret.kind = "pdu"
          /\ BindOids(wret.pdu.binds)
               = UNION {Subtree(call.oids[k]) : k \in 1..Len(call.oids)}
          /\ StrictlySorted(wret.pdu.binds)
          /\ AllValues(wret.pdu.binds))

C1_Witness ==
    /\ WalkDone
    /\ RepeaterWalk
    /\ call.oids = <<<<1>>>>
    /\ call.maxRepetitions = 2
    /\ mib = {<<1>>, <<1, 1>>, <<1, 2>>, <<2>>}
    /\ requests = 2
    /\ wret.kind = "pdu"
    /\ Len(wret.pdu.binds) = 2

\* C9: GetBulkWalk called with nonRepeaters or maxRepetitions outside
\* 0..2^31-1 returns an ArgumentError before any request, with the OID list as
\* it was passed.
C9_WalkValidatesAtEntry ==
    (wpc # "entry" /\ (call.nonRepeaters < 0 \/ call.maxRepetitions < 0))
      => (/\ WalkDone
          /\ ~crashed
          /\ wret.kind = "err"
          /\ wret.err = "ArgumentError"
          /\ requests = 0
          /\ oids = call.oids)

\* the nonRepeaters of the iteration that received lastPdu
IterationNonRepeaters == IF requests <= 1 THEN call.nonRepeaters ELSE 0

ErrorReceived == wpc # "entry" /\ lastPdu.status \notin {"none", NoError}

ReturnedRaw == WalkDone /\ wret = [kind |-> "raw", err |-> "nil", pdu |-> lastPdu]

OverrideConfined ==
    /\ pc = "idle" => (authEngineBoots = Zero /\ authEngineTime = Zero)
    /\ \A d \in wire :
         IF op = "V2TrapWithBootsTime"
         THEN d.boots = entry.a1 /\ d.time = entry.a2
         ELSE d.boots = Zero /\ d.time = Zero

C11_PerCallOverride ==
    [][version' = version /\ retries' = retries /\ OverrideConfined']_vars

C11_Witness ==
    /\ Returned("V2TrapWithBootsTime")
    /\ ret.err = "timeout"
    /\ entry.a1 = Wide(0, MaxInt32)
    /\ entry.a2 = Zero
    /\ Cardinality(wire) = 2
    /\ \A d \in wire : d.boots = Wide(0, MaxInt32)
    /\ authEngineBoots = Zero

OpenRan ==
    /\ op \in SendOps \cup {"Open"}
    /\ pc = "idle"
    /\ ret.op = op
    /\ entry.conn = 0
    /\ dials > 0

DialFailed == OpenRan /\ nextSock = entry.nextSock

DiscoveryFailed ==
    /\ OpenRan
    /\ nextSock > entry.nextSock
    /\ discOuts # <<>>
    /\ discOuts[Len(discOuts)] # "ok"

C19_FailedOpenLeavesClosed ==
    /\ (DialFailed \/ DiscoveryFailed)
         => (/\ ret.err \notin {"nil", "ArgumentError"}
             /\ conn = 0
             /\ engine = 0
             /\ openSocks = {}
             /\ outs = <<>>)
    /\ DialFailed => (wire = {} /\ dials = retries + 1)
    /\ DiscoveryFailed => ret.err = discOuts[Len(discOuts)]
    /\ (pc \in {"discover", "send"} /\ entry.conn = 0)
         => (dials > 0 /\ conn = entry.nextSock)

C19_Witness ==
    /\ version = V3
    /\ Returned("GetRequest")
    /\ DiscoveryFailed
    /\ entry.nextSock = 2
    /\ nextSock = 3
    /\ ret.err = "security"
    /\ conn = 0
    /\ openSocks = {}

\* C20: no public operation dereferences a nil connection: every datagram
\* goes through a socket, and a sending operation called on a client with no
\* connection has dialed or returns an error.
C20_NoSendWithoutConnection ==
    /\ ~crashed
    /\ \A d \in wire : d.sock # 0
    /\ (op \in SendOps \cup {"V1Trap"} /\ pc = "idle" /\ ret.op = op
          /\ entry.conn = 0 /\ dials = 0)
         => ret.err # "nil"

-----------------------------------------------------------------------------
(* Claims about the steps of GetBulkWalk, checked under SpecWalk and       *)
(* SpecWalkAny.                                                            *)

\* this step is an iteration that received a Response (lastPdu')
Received == wpc = "loop" /\ requests' = requests + 1 /\ wret'.kind # "err"

\* what lines 223-268 make of the var-binds of a Response: the non-repeater
\* var-binds, the results, the request list and the original OIDs
Processed(binds) ==
    LET n == nonRepeaters
        varBinds == SubSeq(binds, n + 1, Len(binds))
        base == SubSeq(oids, n + 1, Len(oids))
        req == SubSeq(reqOids, n + 1, Len(reqOids))
        st == ProcessFrom([res |-> resBinds, req |-> req], 1,
                          UniqBinds(SortBinds(varBinds)),
                          Len(varBinds) = Len(req) * maxRepetitions,
                          maxRepetitions, base)
    IN  <<nonRepBinds \o SubSeq(binds, 1, n), st.res, Sweep(st.req, st.req),
          Sweep(st.req, base)>>

ResultRepeaters(binds) == SubSeq(binds, Len(nonRepBinds) + 1, Len(binds))

RequestedRepeaters ==
    {call.oids[k] : k \in (call.nonRepeaters + 1)..Len(call.oids)}

\* C16: the non-repeater var-binds are the first nonRepeaters var-binds of
\* the first Response, taken once, after which nonRepeaters is 0 and the
\* request list holds repeaters only; a walk that ends normally returns them
\* followed by the repeater var-binds in strictly increasing OID order, none
\* of them a sentinel, each named by a requested repeater OID or by an OID
\* below one.
C16_WalkResultShape ==
    [][/\ (Received /\ wpc' = "loop")
          => (/\ nonRepBinds' = IF requests = 0
                                THEN SubSeq(lastPdu'.binds, 1,
                                            call.nonRepeaters)
                                ELSE nonRepBinds
              /\ nonRepeaters' = 0
              /\ Len(reqOids') <= Len(reqOids) - nonRepeaters)
       /\ (wpc = "loop" /\ wret'.kind = "pdu")
          => (/\ wret'.err = "nil"
              /\ SubSeq(wret'.pdu.binds, 1, Len(nonRepBinds)) = nonRepBinds
              /\ Len(nonRepBinds) \in {0, call.nonRepeaters}
              /\ StrictlySorted(ResultRepeaters(wret'.pdu.binds))
              /\ \A k \in 1..Len(ResultRepeaters(wret'.pdu.binds)) :
                   LET b == ResultRepeaters(wret'.pdu.binds)[k]
                   IN  /\ b.var \notin Sentinels
                       /\ \E o \in RequestedRepeaters : Contains(b.oid, o))
      ]_vars

C16_Witness ==
    /\ WalkDone
    /\ agent = "faulty"
    /\ wret.kind = "pdu"
    /\ call.nonRepeaters = 1
    /\ call.oids = << <<2>>, <<1>> >>
    /\ nonRepBinds = <<VarBind(<<1, 2>>, "value")>>
    /\ resBinds = <<VarBind(<<1, 2>>, "value"), VarBind(<<1, 1>>, "value")>>
    /\ wret.pdu.binds = <<VarBind(<<1, 2>>, "value"),
                          VarBind(<<1, 1>>, "value"),
                          VarBind(<<1, 2>>, "value")>>

\* the requests made so far are paid for by the positions dropped and the
\* OIDs gathered
RequestsBounded ==
    wpc = "loop"
      => requests <= (Len(call.oids) - Len(reqOids))
                       + Cardinality(BindOids(resBinds))

\* C17: every iteration after which the walk goes on has dropped a position
\* from the request list or added to the results an OID that was not in
\* them, so that the number of requests never exceeds the number of
\* positions dropped plus the number of OIDs gathered.
C17_WalkProgress ==
    [][/\ (Received /\ wpc' = "loop")
          => \/ Len(reqOids') < Len(reqOids)
             \/ \E k \in 1..Len(resBinds') :
                  ~MatchOid(resBinds, resBinds'[k].oid)
       /\ RequestsBounded']_vars

C17_Witness ==
    /\ WalkDone
    /\ agent = "faulty"
    /\ wret.kind = "pdu"
    /\ call.oids = << <<1>> >>
    /\ requests = 3
    /\ resBinds = <<VarBind(<<1, 2>>, "value"), VarBind(<<1, 1>>, "value")>>
    /\ lastPdu.binds = <<VarBind(<<1, 1>>, "value")>>

\* C18: a walk called with nonRepeaters in 0..len(oids) never indexes a list
\* out of range, whatever the agent answers, and the request list and the
\* list of original OIDs are equally long at the head of every iteration.
C18_WalkNeverOutOfRange ==
    (wpc # "entry" /\ SliceInRange(call.nonRepeaters, call.oids))
      => (/\ ~crashed
          /\ wret.kind # "panic"
          /\ wpc = "loop" => Len(reqOids) = Len(oids))

-----------------------------------------------------------------------------
(* Claims about a Close under a pending request, checked under             *)
(* SpecShutdown.                                                           *)

\* C14: after a Close that ran while a request was pending, the request has
\* not crashed, has sent no datagram on the closed socket or through the
\* cleared engine, has not opened the connection again, and when it returns
\* it returns an error.
C14_ShutdownFailsPending ==
    shut # NoShut
      => (/\ ~crashed
          /\ \A d \in wire : d.live /\ d.sock # 0 /\ d.eng # 0
          /\ conn = 0
          /\ engine = 0
          /\ nextSock <= entry.nextSock + 1
          /\ pc = "idle" => (ret.op = op /\ ret.err # "nil"))

-----------------------------------------------------------------------------
(* Claims about the bytes of V1Trap, checked under SpecTrap.               *)

\* the message a conforming encoder builds for the same trap
V1TrapWellFormed(t) ==
    Tlv(48, MarshalInteger(version) \o MarshalOctetString(Community)
              \o Tlv(164, V1TrapBody(t)))

\* C13: the datagram V1Trap builds is the BER message whose Trap-v1 PDU
\* carries the length of its body, in short form below 128 bytes and in long
\* form otherwise, and the receiver decodes from it the enterprise, agent
\* address, generic trap, specific trap and time stamp that were put in.
C13_V1TrapRoundTrip ==
    /\ tpc \in {"marshalled", "decoded"}
         => marbuf = V1TrapWellFormed(varPduV1)
    /\ tpc = "decoded" => decoded = varPduV1

=============================================================================
